---- MODULE Spec2Model ----
(***************************************************************************)
(* A model of the phdrs crate (src/src/lib.rs): objects() drives the       *)
(* loader's dl_iterate_phdr over the loaded objects and copies each        *)
(* transient dl_phdr_info into an owned Object; Object::iter_phdrs hands    *)
(* out a ProgramHeaderIterator (raw pointer + u16 count) over the loader's  *)
(* program header table; ProgramHeader's Debug impl renders one header.     *)
(*                                                                         *)
(* Pointers into the loader's program header tables are integers counting  *)
(* Elf_Phdr entries (ptr.offset(1) is ptr + 1).  C strings are sequences of *)
(* bytes ending in a NUL, held in a string memory, strmem, whose cell       *)
(* NameBuf is the loader's name buffer and whose later cells are CString    *)
(* allocations.                                                            *)
(***************************************************************************)
EXTENDS Integers, Sequences, FiniteSets, TLC

VARIABLES
    loaded,     \* the loader's list of loaded objects, in its iteration order
    strmem,     \* string memory: address -> NUL-terminated bytes
    info,       \* the loader's transient dl_phdr_info, reused for each entry
    lock,       \* the thread holding the loader's lock, 0 when free
    data,       \* the opaque context pointer the loader passes to the callback
    scan_i,     \* how many objects the running scan has presented and finished
    pc,         \* each thread's position in objects()
    ret,        \* each thread's `ret` vector (the accumulator of its call)
    iters,      \* the ProgramHeaderIterators, NoIter where not created
    src,        \* which Object (thread, index) each iterator was created from
    log,        \* what each iterator's next() has returned so far, in order
    fmt_ph,     \* the Elf_Phdr behind the ProgramHeader being rendered
    out,        \* the pieces pushed to `to_write` by the Debug rendering
    fmt_res     \* what fmt returned: "none" before the call, then "Ok" or "Err"

vars == <<loaded, strmem, info, lock, data, scan_i, pc, ret, iters, src, log,
          fmt_ph, out, fmt_res>>

scanVars == <<loaded, strmem, info, lock, data, scan_i, pc, ret>>
iterVars == <<iters, src, log>>
fmtVars == <<fmt_ph, out, fmt_res>>

\* ---------------------------------------------------------------- bounds

MaxObjs == 2
MaxPhnum == 2
MaxExtraCalls == 2

Threads == {1, 2}
Iters == {1, 2}

\* ------------------------------------------------------- program constants

PT_NULL == 0
PT_LOAD == 1
PT_DYNAMIC == 2
PT_INTERP == 3
PT_NOTE == 4
PT_SHLIB == 5
PT_PHDR == 6
PT_TLS == 7
PT_LOOS == 1610612736
PT_GNU_EH_FRAME == 1685382480
PT_GNU_RELRO == 1685382482
PT_HIOS == 1879048191
PT_LOPROC == 1879048192
PT_HIPROC == 2147483647

PF_X == 1
PF_W == 2
PF_R == 4
\* PF_MASKPROC is 0xf0000000; for a 32-bit word, flags & PF_MASKPROC != 0
\* exactly when flags >= 0x10000000, the mask's lowest bit.
PF_MASKPROC_LOW == 268435456

\* Elf_Half is 16 bits wide.
HalfBits == 16
HalfMod == 2 ^ HalfBits

\* ------------------------------------------------- the loader's environment

\* A segment type code outside the documented list (PT_GNU_STACK).
PT_OTHER == PT_GNU_EH_FRAME + 1

\* The loader's program header memory.  The contents cycle through an
\* unused PT_NULL slot, a read/execute PT_LOAD, a vendor-specific segment
\* and a PT_PHDR.
PhdrRows ==
    << [p_type |-> PT_NULL, p_flags |-> 0, p_offset |-> 0, p_vaddr |-> 0,
        p_paddr |-> 0, p_filesz |-> 0, p_memsz |-> 0, p_align |-> 0],
       [p_type |-> PT_LOAD, p_flags |-> 5, p_offset |-> 0, p_vaddr |-> 4096,
        p_paddr |-> 4096, p_filesz |-> 1500, p_memsz |-> 2000, p_align |-> 4096],
       [p_type |-> PT_OTHER, p_flags |-> 6, p_offset |-> 0, p_vaddr |-> 0,
        p_paddr |-> 0, p_filesz |-> 0, p_memsz |-> 0, p_align |-> 16],
       [p_type |-> PT_PHDR, p_flags |-> 4, p_offset |-> 64, p_vaddr |-> 64,
        p_paddr |-> 64, p_filesz |-> 616, p_memsz |-> 616, p_align |-> 8] >>

\* Address of the first program header entry the loader has published.
PhdrMemBase == 1

PhdrMem(p) == PhdrRows[((p - PhdrMemBase) % Len(PhdrRows)) + 1]

\* Names the loader reports: the empty name of the main program, a path,
\* and a name that is not valid UTF-8.
NameRows == << <<0>>, <<47, 108, 0>>, <<255, 0>> >>

PoolSize == MaxPhnum + 1

PoolPhnum(i) == (MaxPhnum + 1 - i) % (MaxPhnum + 1)

\* The entries before object i's table: the sum of PoolPhnum(j), j < i.
PoolPhdr(i) == PhdrMemBase + (i - 1) * (MaxPhnum + 1) - ((i - 1) * i) \div 2

\* The objects the loader may have mapped.  The first is a non-PIE main
\* program (load bias 0, empty name); the last has no program headers.
Pool(i) ==
    [dlpi_addr |-> (i - 1) * 4096,
     name |-> NameRows[((i - 1) % Len(NameRows)) + 1],
     dlpi_phdr |-> PoolPhdr(i),
     dlpi_phnum |-> PoolPhnum(i)]

RECURSIVE SeqsUpTo(_, _)
SeqsUpTo(S, n) ==
    IF n = 0 THEN {<<>>}
    ELSE LET shorter == SeqsUpTo(S, n - 1)
         IN shorter \cup {Append(s, x) : s \in shorter, x \in S}

\* The loader's list: up to MaxObjs distinct objects, in any order, the
\* main program always among them.
LoadedLists ==
    {[i \in DOMAIN s |-> Pool(s[i])] :
        s \in {q \in SeqsUpTo(1..PoolSize, MaxObjs) :
                 /\ \E i \in DOMAIN q : q[i] = 1
                 /\ \A i, j \in DOMAIN q : i # j => q[i] # q[j]}}

\* The loader's name buffer in strmem; CString allocations come after it.
NameBuf == 1

\* The transient descriptor and the name buffer outside a callback.
InfoClobbered == [dlpi_addr |-> 0, dlpi_name |-> 0, dlpi_phdr |-> 0, dlpi_phnum |-> 0]
NameClobbered == <<0>>

\* ------------------------------------------------------------- objects()

\* CStr::from_ptr: the bytes at p up to, not including, the first NUL.
RECURSIVE StrBytes(_, _)
StrBytes(bytes, i) ==
    IF bytes[i] = 0 THEN <<>> ELSE <<bytes[i]>> \o StrBytes(bytes, i + 1)

CStrFromPtr(mem, p) == StrBytes(mem[p], 1)

\* A defect: the CStr is kept as a borrow of the loader's buffer.
ToOwnedAlias(mem, p) == [mem |-> mem, ptr |-> p]

\* CStr::to_owned: a fresh allocation holding a copy of the bytes and a NUL.
ToOwned(mem, p) ==
    [mem |-> Append(mem, CStrFromPtr(mem, p) \o <<0>>), ptr |-> Len(mem) + 1]

\* A defect: the base address is replaced by the segment array's address.
PushObjectAddr(objs, mem, obj) ==
    LET name == ToOwned(mem, obj.dlpi_name)
    IN [objs |-> Append(objs, [addr |-> obj.dlpi_phdr, name |-> name.ptr,
                               phdrs |-> obj.dlpi_phdr,
                               num_phdrs |-> obj.dlpi_phnum]),
        mem |-> name.mem]

\* push_object: copies the descriptor out and pushes the Object.
PushObject(objs, mem, obj) ==
    LET name == ToOwned(mem, obj.dlpi_name)
    IN [objs |-> Append(objs, [addr |-> obj.dlpi_addr, name |-> name.ptr,
                               phdrs |-> obj.dlpi_phdr,
                               num_phdrs |-> obj.dlpi_phnum]),
        mem |-> name.mem]

\* A defect: the callback reports a non-zero status.
CollectObjsStop(rets, mem, inf, dat) ==
    LET pushed == PushObject(rets[dat], mem, inf)
    IN [rets |-> [rets EXCEPT ![dat] = pushed.objs], mem |-> pushed.mem,
        status |-> 1]

\* collect_objs: pushes into the vector behind `data` and returns 0.
CollectObjs(rets, mem, inf, dat) ==
    LET pushed == PushObject(rets[dat], mem, inf)
    IN [rets |-> [rets EXCEPT ![dat] = pushed.objs], mem |-> pushed.mem,
        status |-> 0]

\* A defect: one vector shared by every call.
RetVoidPShared(t) == 1

\* ret_void_p: the address of the caller's own `ret`.
RetVoidP(t) == t

\* let mut ret = Vec::new();
ObjectsBegin(t) ==
    /\ pc[t] = "idle"
    /\ ret' = [ret EXCEPT ![t] = <<>>]
    /\ pc' = [pc EXCEPT ![t] = "call"]
    /\ UNCHANGED <<loaded, strmem, info, lock, data, scan_i>>

\* dl_iterate_phdr(Some(collect_objs), ret_void_p): the loader takes its lock.
LoaderEnter(t) ==
    /\ pc[t] = "call"
    /\ lock = 0
    /\ lock' = t
    /\ data' = RetVoidP(t)
    /\ scan_i' = 0
    /\ pc' = [pc EXCEPT ![t] = "scan"]
    /\ UNCHANGED <<loaded, strmem, info, ret>>

\* The loader writes the next object into its transient descriptor, and the
\* object's name into the buffer the descriptor points to.
LoaderPresent(t) ==
    /\ pc[t] = "scan"
    /\ lock = t
    /\ scan_i < Len(loaded)
    /\ LET o == loaded[scan_i + 1]
       IN /\ info' = [dlpi_addr |-> o.dlpi_addr, dlpi_name |-> NameBuf,
                      dlpi_phdr |-> o.dlpi_phdr, dlpi_phnum |-> o.dlpi_phnum]
          /\ strmem' = [strmem EXCEPT ![NameBuf] = o.name]
    /\ pc' = [pc EXCEPT ![t] = "callback"]
    /\ UNCHANGED <<loaded, lock, data, scan_i, ret>>

\* The loader calls collect_objs(info, size, data); a non-zero status ends
\* the scan.
Callback(t) ==
    /\ pc[t] = "callback"
    /\ lock = t
    /\ LET r == CollectObjs(ret, strmem, info, data)
       IN /\ ret' = r.rets
          /\ strmem' = r.mem
          /\ scan_i' = IF r.status = 0 THEN scan_i + 1 ELSE Len(loaded)
    /\ pc' = [pc EXCEPT ![t] = "scan"]
    /\ UNCHANGED <<loaded, info, lock, data>>

\* dl_iterate_phdr returns: the lock is released and the transient
\* descriptor and name buffer are no longer the loader's to keep.
LoaderReturn(t) ==
    /\ pc[t] = "scan"
    /\ lock = t
    /\ scan_i >= Len(loaded)
    /\ lock' = 0
    /\ info' = InfoClobbered
    /\ strmem' = [strmem EXCEPT ![NameBuf] = NameClobbered]
    /\ pc' = [pc EXCEPT ![t] = "done"]
    /\ UNCHANGED <<loaded, data, scan_i, ret>>

\* Object::addr, Object::name, Object::num_phdrs.
Addr(o) == o.addr
Name(mem, o) == CStrFromPtr(mem, o.name)
NumPhdrs(o) == o.num_phdrs

ScanInit ==
    /\ loaded \in LoadedLists
    /\ strmem = <<NameClobbered>>
    /\ info = InfoClobbered
    /\ lock = 0
    /\ data = 0
    /\ scan_i = 0
    /\ pc = [t \in Threads |-> "idle"]
    /\ ret = [t \in Threads |-> <<>>]

\* ------------------------------------------------ ProgramHeaderIterator

None == [some |-> FALSE, ptr |-> 0]
Some(p) == [some |-> TRUE, ptr |-> p]

NoIter == [ptr |-> 0, num |-> 0]
NoSrc == <<0, 0>>

\* A defect: the iterator is created with one entry too many.
IterPhdrsOneMore(o) == [ptr |-> o.phdrs, num |-> (o.num_phdrs + 1) % HalfMod]

\* Object::iter_phdrs: a cursor at the first entry, num_phdrs entries left.
IterPhdrs(o) == [ptr |-> o.phdrs, num |-> o.num_phdrs]

\* A defect: the count is decremented without the test for 0.
IterNextNoGuard(it) ==
    [ret |-> Some(it.ptr),
     it |-> [ptr |-> it.ptr + 1, num |-> (it.num - 1) % HalfMod]]

\* ProgramHeaderIterator::next.  num is an Elf_Half: num -= 1 is taken
\* modulo 2^16.
IterNext(it) ==
    IF it.num = 0
    THEN [ret |-> None, it |-> it]
    ELSE [ret |-> Some(it.ptr),
          it |-> [ptr |-> it.ptr + 1, num |-> (it.num - 1) % HalfMod]]

\* A defect: one cursor shared by every iterator.
NextOnShared(its, k) == [j \in DOMAIN its |-> IterNext(its[k]).it]

\* next(&mut self): the call writes the iterator it is called on.
NextOn(its, k) == [its EXCEPT ![k] = IterNext(its[k]).it]

\* A defect: type_ reads the neighbouring field.
Type_Flags(ph) == PhdrMem(ph.ptr).p_flags

\* ProgramHeader::type_ and ProgramHeader::flags: one read through the pointer.
Type_(ph) == PhdrMem(ph.ptr).p_type
Flags(ph) == PhdrMem(ph.ptr).p_flags

\* The Object iterator k was created from.
SrcObj(k) == ret[src[k][1]][src[k][2]]

\* o.iter_phdrs() on the i-th Object of the vector thread t got back.
IterPhdrsCall(k, t, i) ==
    /\ pc[t] = "done"
    /\ src[k] = NoSrc
    /\ i \in DOMAIN ret[t]
    /\ iters' = [iters EXCEPT ![k] = IterPhdrs(ret[t][i])]
    /\ src' = [src EXCEPT ![k] = <<t, i>>]
    /\ UNCHANGED <<log, scanVars, fmtVars>>

\* it.next() on iterator k; the calls after exhaustion are bounded.
NextCall(k) ==
    /\ src[k] # NoSrc
    /\ Len(log[k]) < NumPhdrs(SrcObj(k)) + MaxExtraCalls
    /\ iters' = NextOn(iters, k)
    /\ log' = [log EXCEPT ![k] = Append(@, IterNext(iters[k]).ret)]
    /\ UNCHANGED <<src, scanVars, fmtVars>>

IterInit ==
    /\ iters = [k \in Iters |-> NoIter]
    /\ src = [k \in Iters |-> NoSrc]
    /\ log = [k \in Iters |-> <<>>]

\* ------------------------------------------- impl Debug for ProgramHeader

\* The text is kept as the sequence of pieces the format strings put
\* together: a literal piece, or the digits of one formatted number.
Lit(s) == [lit |-> s, digits |-> <<>>]
Num(ds) == [lit |-> "", digits |-> ds]

DigitChars ==
    <<"0", "1", "2", "3", "4", "5", "6", "7", "8", "9",
      "a", "b", "c", "d", "e", "f">>

\* The digits of n in the given base, most significant first, "0" for 0.
RECURSIVE ToDigits(_, _)
ToDigits(n, base) ==
    IF n < base
    THEN <<DigitChars[n + 1]>>
    ELSE ToDigits(n \div base, base) \o <<DigitChars[(n % base) + 1]>>

\* "{}" of an unsigned integer.
Display(n) == ToDigits(n, 10)

\* A defect: the number is written in decimal after the "0x".
LowerHexAsDisplay(n) == ToDigits(n, 10)

\* "{:x}" of an unsigned integer.
LowerHex(n) == ToDigits(n, 16)

\* a & b for b a single bit (a power of two).
BitAnd(a, b) == ((a \div b) % 2) * b

\* A defect: the OS-specific and processor-specific ranges are matched as
\* ranges, ahead of the GNU types that lie inside the OS range.
TypeStrRanges(type_) ==
    CASE type_ = PT_NULL -> "PT_NULL"
      [] type_ = PT_LOAD -> "PT_LOAD"
      [] type_ = PT_DYNAMIC -> "PT_DYNAMIC"
      [] type_ = PT_INTERP -> "PT_INTERP"
      [] type_ = PT_NOTE -> "PT_NOTE"
      [] type_ = PT_SHLIB -> "PT_SHLIB"
      [] type_ = PT_PHDR -> "PT_PHDR"
      [] type_ = PT_TLS -> "PT_TLS"
      [] type_ >= PT_LOOS /\ type_ < PT_HIOS -> "PT_LOOS"
      [] type_ = PT_HIOS -> "PT_HIOS"
      [] type_ >= PT_LOPROC /\ type_ < PT_HIPROC -> "PT_LOPROC"
      [] type_ = PT_HIPROC -> "PT_HIPROC"
      [] OTHER -> "other"

\* The match on the type code; the arms are tried in order.
TypeStr(type_) ==
    CASE type_ = PT_NULL -> "PT_NULL"
      [] type_ = PT_LOAD -> "PT_LOAD"
      [] type_ = PT_DYNAMIC -> "PT_DYNAMIC"
      [] type_ = PT_INTERP -> "PT_INTERP"
      [] type_ = PT_NOTE -> "PT_NOTE"
      [] type_ = PT_SHLIB -> "PT_SHLIB"
      [] type_ = PT_PHDR -> "PT_PHDR"
      [] type_ = PT_TLS -> "PT_TLS"
      [] type_ = PT_LOOS -> "PT_LOOS"
      [] type_ = PT_HIOS -> "PT_HIOS"
      [] type_ = PT_LOPROC -> "PT_LOPROC"
      [] type_ = PT_HIPROC -> "PT_HIPROC"
      [] type_ = PT_GNU_EH_FRAME -> "PT_GNU_EH_FRAME"
      [] type_ = PT_GNU_RELRO -> "PT_GNU_RELRO"
      [] OTHER -> "other"

\* flag_strs: the names pushed for the bits that are set, in the code's order.
FlagStrs(flags) ==
    (IF BitAnd(flags, PF_X) # 0 THEN <<"PF_X">> ELSE <<>>)
    \o (IF BitAnd(flags, PF_W) # 0 THEN <<"PF_W">> ELSE <<>>)
    \o (IF BitAnd(flags, PF_R) # 0 THEN <<"PF_R">> ELSE <<>>)
    \o (IF flags >= PF_MASKPROC_LOW THEN <<"PF_MASKPROC">> ELSE <<>>)

\* [&str]::join
RECURSIVE Join(_, _)
Join(strs, sep) ==
    IF Len(strs) = 0 THEN ""
    ELSE IF Len(strs) = 1 THEN strs[1]
    ELSE strs[1] \o sep \o Join(Tail(strs), sep)

\* fmt: to_write after each push_str, and the result of the final write!.
Fmt(h) ==
    [pieces |->
        <<Lit("ProgramHeader(")>>
        \o <<Lit("typ="), Num(Display(h.p_type)), Lit(" ("),
             Lit(TypeStr(h.p_type)), Lit("), ")>>
        \o <<Lit("flags=<"), Lit(Join(FlagStrs(h.p_flags), "|")), Lit(">, ")>>
        \o <<Lit("offset=<0x"), Num(LowerHex(h.p_offset)), Lit(">, ")>>
        \o <<Lit("vaddr=<0x"), Num(LowerHex(h.p_vaddr)), Lit(">, ")>>
        \o <<Lit("paddr=<0x"), Num(LowerHex(h.p_paddr)), Lit(">, ")>>
        \o <<Lit("align=<0x"), Num(LowerHex(h.p_align)), Lit(">)")>>,
     result |-> "Ok"]

\* println!("{:?}", p) on a ProgramHeader over the record fmt_ph.
DebugFmt ==
    /\ fmt_res = "none"
    /\ out' = Fmt(fmt_ph).pieces
    /\ fmt_res' = Fmt(fmt_ph).result
    /\ UNCHANGED <<fmt_ph, scanVars, iterVars>>

\* The sampled Elf_Phdr records: every documented type code and codes
\* around them, flag words with known, unknown and processor-specific bits.
TypeSamples ==
    {PT_NULL, PT_LOAD, PT_DYNAMIC, PT_INTERP, PT_NOTE, PT_SHLIB, PT_PHDR,
     PT_TLS, PT_TLS + 1, PT_LOOS, PT_LOOS + 1, PT_GNU_EH_FRAME, PT_OTHER,
     PT_GNU_RELRO, PT_HIOS, PT_LOPROC, PT_LOPROC + 1, PT_HIPROC}

FlagSamples == {0, 4, 5, 6, 7, 8, PF_MASKPROC_LOW, PF_MASKPROC_LOW + 5}

PhdrSamples ==
    [p_type : TypeSamples, p_flags : FlagSamples, p_offset : {0, 26, 4096},
     p_vaddr : {0, 4096, 2748}, p_paddr : {255, 4096}, p_filesz : {0, 777},
     p_memsz : {0, 999}, p_align : {0, 16, 4096}]

\* -------------------------------------------------- specification: Spec

Init ==
    /\ ScanInit
    /\ IterInit
    /\ fmt_ph = PhdrRows[1]
    /\ out = <<>>
    /\ fmt_res = "none"

Next ==
    \/ \E t \in Threads : ObjectsBegin(t) /\ UNCHANGED <<iterVars, fmtVars>>
    \/ \E t \in Threads : LoaderEnter(t) /\ UNCHANGED <<iterVars, fmtVars>>
    \/ \E t \in Threads : LoaderPresent(t) /\ UNCHANGED <<iterVars, fmtVars>>
    \/ \E t \in Threads : Callback(t) /\ UNCHANGED <<iterVars, fmtVars>>
    \/ \E t \in Threads : LoaderReturn(t) /\ UNCHANGED <<iterVars, fmtVars>>
    \/ \E k \in Iters, t \in Threads, i \in 1..MaxObjs : IterPhdrsCall(k, t, i)
    \/ \E k \in Iters : NextCall(k)

Spec == Init /\ [][Next]_vars

\* ----------------------------------------------- specification: SpecFmt
\* The rendering alone, over the sampled records.

InitFmt ==
    /\ ScanInit
    /\ loaded = <<Pool(1)>>
    /\ IterInit
    /\ fmt_ph \in PhdrSamples
    /\ out = <<>>
    /\ fmt_res = "none"

NextFmt == DebugFmt

SpecFmt == InitFmt /\ [][NextFmt]_vars

\* ================================================================ claims

\* The number of objects thread t's scan has pushed so far.
Pushed(t) ==
    IF pc[t] = "done" THEN Len(loaded) ELSE IF lock = t THEN scan_i ELSE 0

Created == {k \in Iters : src[k] # NoSrc}

\* C1: an iterator over an Object with num_phdrs = n returns Some on its
\* first n calls of next() and None on every call after them.
C1_YieldsCountThenNone ==
    \A k \in Created :
        \A j \in DOMAIN log[k] : log[k][j].some <=> j <= NumPhdrs(SrcObj(k))

C1_Witness ==
    \E k \in Created :
        /\ NumPhdrs(SrcObj(k)) = MaxPhnum
        /\ Len(log[k]) = MaxPhnum + MaxExtraCalls
        /\ ~ log[k][Len(log[k])].some

\* C2: the vector objects() returns holds one Object per loaded object, in
\* the loader's order, each with the addr, num_phdrs and phdrs of the
\* descriptor presented for it; the scan is never cut short.
C2_OnePerObjectInOrder ==
    \A t \in Threads :
        pc[t] = "done" =>
            /\ Len(ret[t]) = Len(loaded)
            /\ \A i \in DOMAIN ret[t] :
                /\ Addr(ret[t][i]) = loaded[i].dlpi_addr
                /\ NumPhdrs(ret[t][i]) = loaded[i].dlpi_phnum
                /\ ret[t][i].phdrs = loaded[i].dlpi_phdr

C2_Witness ==
    \E t \in Threads :
        /\ pc[t] = "done"
        /\ Len(ret[t]) = MaxObjs
        /\ ret[t][1].phdrs # ret[t][2].phdrs

\* C3: the name of every Object in an accumulator is held outside the
\* loader's buffer and still reads as the bytes the loader presented for
\* that object, whatever the loader has since written to its buffer.
C3_NamesOwned ==
    \A t \in Threads :
        \A i \in DOMAIN ret[t] :
            /\ ret[t][i].name # NameBuf
            /\ ret[t][i].name # info.dlpi_name
            /\ i <= Len(loaded)
            /\ Name(strmem, ret[t][i]) = StrBytes(loaded[i].name, 1)

C3_Witness ==
    \E t \in Threads :
        \E i \in DOMAIN ret[t] :
            /\ Name(strmem, ret[t][i]) # <<>>
            /\ CStrFromPtr(strmem, NameBuf) # Name(strmem, ret[t][i])
            /\ pc[t] = "done"

RECURSIVE RunAlone(_, _)
RunAlone(it, m) ==
    IF m = 0 THEN <<>>
    ELSE <<IterNext(it).ret>> \o RunAlone(IterNext(it).it, m - 1)

RECURSIVE StateAlone(_, _)
StateAlone(it, m) ==
    IF m = 0 THEN it ELSE StateAlone(IterNext(it).it, m - 1)

C5_SameAsAlone ==
    \A k \in Created :
        /\ log[k] = RunAlone(IterPhdrs(SrcObj(k)), Len(log[k]))
        /\ iters[k] = StateAlone(IterPhdrs(SrcObj(k)), Len(log[k]))
        /\ \A j \in Created :
            src[j] = src[k] =>
                \A n \in DOMAIN log[j] \cap DOMAIN log[k] :
                    /\ log[j][n] = log[k][n]
                    /\ log[j][n].some =>
                        PhdrMem(log[j][n].ptr) = PhdrMem(log[k][n].ptr)

C5_OthersUntouched ==
    \A k \in Iters :
        log'[k] # log[k] =>
            /\ \A j \in Iters \ {k} : iters'[j] = iters[j] /\ log'[j] = log[j]
            /\ ret' = ret

\* C5: two iterators over one Object are independent: under any
\* interleaving each returns what it returns when run alone, both see the
\* same entries, and a call of next() on one changes neither the other's
\* cursor and count nor the Object.
C5_ItersIndependent == [](C5_SameAsAlone) /\ [][C5_OthersUntouched]_vars

C5_Witness ==
    /\ src[1] # NoSrc
    /\ src[1] = src[2]
    /\ NumPhdrs(SrcObj(1)) = MaxPhnum
    /\ Len(log[1]) = MaxPhnum
    /\ Len(log[2]) = 1
    /\ iters[1].num = 0
    /\ iters[2].num = MaxPhnum - 1

\* C6: at every point of every interleaving of the threads' calls, each
\* thread's accumulator holds exactly the objects its own scan has been
\* presented so far, and so the complete list once its call has returned.
C6_OwnAccumulatorOnly ==
    \A t \in Threads :
        /\ Len(ret[t]) = Pushed(t)
        /\ Pushed(t) <= Len(loaded)
        /\ \A i \in DOMAIN ret[t] :
            /\ Addr(ret[t][i]) = loaded[i].dlpi_addr
            /\ ret[t][i].phdrs = loaded[i].dlpi_phdr
            /\ Name(strmem, ret[t][i]) = StrBytes(loaded[i].name, 1)

C6_Witness ==
    \E t, u \in Threads :
        /\ t # u
        /\ pc[t] = "done"
        /\ Len(ret[t]) = MaxObjs
        /\ lock = u
        /\ pc[u] = "callback"
        /\ Len(ret[u]) = 1

\* The j-th entry of the program header table Object o borrows.
TableEntry(o, j) == PhdrMem(o.phdrs + (j - 1))

KnownTypes ==
    {<<0, "PT_NULL">>, <<1, "PT_LOAD">>, <<2, "PT_DYNAMIC">>,
     <<3, "PT_INTERP">>, <<4, "PT_NOTE">>, <<5, "PT_SHLIB">>,
     <<6, "PT_PHDR">>, <<7, "PT_TLS">>, <<PT_LOOS, "PT_LOOS">>,
     <<PT_HIOS, "PT_HIOS">>, <<PT_LOPROC, "PT_LOPROC">>,
     <<PT_HIPROC, "PT_HIPROC">>, <<PT_GNU_EH_FRAME, "PT_GNU_EH_FRAME">>,
     <<PT_GNU_RELRO, "PT_GNU_RELRO">>}

\* The piece that follows the literal piece `label` in the rendering.
After(label) ==
    out[(CHOOSE i \in 1..Len(out) : out[i] = Lit(label)) + 1]

Has(label) == \E i \in 1..(Len(out) - 1) : out[i] = Lit(label)

\* C8: the rendering names the type code by its symbolic name when the code
\* is a documented one and by "other" for every other code, and returns Ok.
C8_TypeNameOrOther ==
    fmt_res # "none" =>
        /\ fmt_res = "Ok"
        /\ Has(" (")
        /\ \A kt \in KnownTypes :
            fmt_ph.p_type = kt[1] => After(" (") = Lit(kt[2])
        /\ (\A kt \in KnownTypes : fmt_ph.p_type # kt[1]) =>
            After(" (") = Lit("other")

C8_Witness ==
    /\ fmt_res = "Ok"
    /\ fmt_ph.p_type = PT_OTHER
    /\ After(" (") = Lit("other")

\* The value of the digit sequence ds read in the given base.
DigitOf(c) == (CHOOSE i \in 1..Len(DigitChars) : DigitChars[i] = c) - 1

RECURSIVE ParseDigits(_, _)
ParseDigits(ds, base) ==
    IF Len(ds) = 0 THEN 0
    ELSE ParseDigits(SubSeq(ds, 1, Len(ds) - 1), base) * base
         + DigitOf(ds[Len(ds)])

\* ds is the numeral of v in the given base, without leading zeros.
IsNumeral(ds, base, v) ==
    /\ Len(ds) \in 1..(IF base = 16 THEN 7 ELSE 10)
    /\ \A i \in DOMAIN ds : DigitOf(ds[i]) < base
    /\ Len(ds) > 1 => ds[1] # "0"
    /\ ParseDigits(ds, base) = v

\* Some piece of the rendering is the numeral of v in the given base.
Rendered(v, base) == \E i \in DOMAIN out : IsNumeral(out[i].digits, base, v)

\* C9 as stated: the rendering shows type and flags, the addresses and the
\* alignment in hexadecimal, and file_offset, file_size and memory_size in
\* decimal.
C9_Original ==
    fmt_res # "none" =>
        /\ Has("typ=") /\ Has("flags=<")
        /\ Rendered(fmt_ph.p_vaddr, 16)
        /\ Rendered(fmt_ph.p_paddr, 16)
        /\ Rendered(fmt_ph.p_align, 16)
        /\ Rendered(fmt_ph.p_offset, 10)
        /\ Rendered(fmt_ph.p_filesz, 10)
        /\ Rendered(fmt_ph.p_memsz, 10)

\* C9 (amended): the rendering shows the type code in decimal with its
\* name, the flag names, and offset, vaddr, paddr and align each in
\* hexadecimal after a "0x"; it has no other number in it, so filesz and
\* memsz are not rendered.
C9_FieldsRendered ==
    fmt_res # "none" =>
        /\ Has("typ=") /\ IsNumeral(After("typ=").digits, 10, fmt_ph.p_type)
        /\ Has("flags=<")
        /\ After("flags=<") = Lit(Join(FlagStrs(fmt_ph.p_flags), "|"))
        /\ Has("offset=<0x")
        /\ IsNumeral(After("offset=<0x").digits, 16, fmt_ph.p_offset)
        /\ Has("vaddr=<0x")
        /\ IsNumeral(After("vaddr=<0x").digits, 16, fmt_ph.p_vaddr)
        /\ Has("paddr=<0x")
        /\ IsNumeral(After("paddr=<0x").digits, 16, fmt_ph.p_paddr)
        /\ Has("align=<0x")
        /\ IsNumeral(After("align=<0x").digits, 16, fmt_ph.p_align)
        /\ Cardinality({i \in DOMAIN out : out[i].digits # <<>>}) = 5

C9_Witness ==
    /\ fmt_res = "Ok"
    /\ fmt_ph.p_offset = 26
    /\ After("offset=<0x") = Num(<<"1", "a">>)
    /\ fmt_ph.p_filesz = 777
    /\ fmt_ph.p_memsz = 999
    /\ ~ Rendered(777, 10)
    /\ ~ Rendered(999, 10)

\* C10: for an iterator over an Object with num_phdrs = n, the entries the
\* cursor has advanced past plus the count left is n; the j-th item is
\* entry j - 1 with j <= n; the cursor stays within one past the end and
\* the count within 0..n.
C10_CursorPlusCount ==
    \A k \in Created :
        LET o == SrcObj(k)
            n == NumPhdrs(o)
        IN /\ (iters[k].ptr - o.phdrs) + iters[k].num = n
           /\ iters[k].num \in 0..n
           /\ iters[k].ptr \in o.phdrs..(o.phdrs + n)
           /\ \A j \in DOMAIN log[k] :
                log[k][j].some =>
                    j <= n /\ log[k][j].ptr = o.phdrs + (j - 1)

C10_Witness ==
    \E k \in Created :
        /\ NumPhdrs(SrcObj(k)) = MaxPhnum
        /\ iters[k].num = 0
        /\ iters[k].ptr = SrcObj(k).phdrs + MaxPhnum
        /\ Len(log[k]) > MaxPhnum

====
